---- MODULE Spec2Model ----
(***************************************************************************)
(* The pin manager of js-ipfs (src/core/components/pin/pin-manager.js):    *)
(* two in-memory sets of pinned identifiers, a two-entry link cache, the   *)
(* root record persisted under /local/pins, and the callback-chained       *)
(* operations that read and write them under a shared/exclusive lock.      *)
(***************************************************************************)
EXTENDS Naturals, Sequences, FiniteSets, Bags, TLC

\* ------------------------------------------------------------------ bounds

\* longest key list a caller passes to addDirectPins/addRecursivePins/rmPins
MaxKeys == 2

\* longest key list where calls overlap or calls of the stores fail
MaxKeysFaulty == 1

\* most calls started in one behaviour where calls overlap
MaxCalls == 2

\* most calls of the content store, the datastore or the codec that fail in one behaviour
MaxFails == 1

\* ------------------------------------------------------------- identifiers

\* canonical string forms of the identifiers, in the order of their buffers
KeyOrder == <<"k1", "k2", "k3">>

Keys == {KeyOrder[i] : i \in 1..Len(KeyOrder)}

\* binary forms of the identifiers
Buffers == 1..Len(KeyOrder)

\* new CID(key).buffer: the binary form of a canonical string
CIDBuffer(key) == CHOOSE b \in Buffers : KeyOrder[b] = key

\* new CID(hash).toBaseEncodedString(): the canonical string of a binary form
toB58String(hash) == KeyOrder[hash]

\* the user DAG held by the content store: k1 -> k2 -> k3
Links(key) ==
  CASE key = "k1" -> {"k2"}
    [] key = "k2" -> {"k3"}
    [] OTHER -> {}

RECURSIVE Reach(_, _)
\* the identifiers reachable from the frontier `todo`, `seen` already visited
Reach(todo, seen) ==
  IF todo = {} THEN seen
  ELSE LET k == CHOOSE x \in todo : TRUE
       IN Reach((todo \cup Links(k)) \ (seen \cup {k}), seen \cup {k})

\* pinset.hasDescendant(node, key) searches the links below the node
Descendants(key) == Reach(Links(key), {})

\* dag._getRecursive(multihash): the node itself and everything below it
getRecursive(hash) == {CIDBuffer(k) : k \in {toB58String(hash)} \cup Descendants(toB58String(hash))}

\* the slots of the callers whose calls overlap: a call takes the first free one
ProcOrder == <<"p1", "p2">>

Procs == {ProcOrder[i] : i \in 1..Len(ProcOrder)}

\* the slot of a caller that waits for each answer before its next call
Caller == "p0"

Slots == Procs \cup {Caller}

None == "none"

\* no call slot: nobody holds the write lock
Nobody == "nobody"

PinTypes == {"direct", "recursive", "indirect", "all"}

\* the identifiers the callers pin and unpin; k3 is only ever reached through them
PinKeys == {"k1", "k2"}

\* the key lists of at most n keys a caller may pass
KeyLists(n) == UNION {[1..m -> PinKeys] : m \in 0..n}

Range(s) == {s[i] : i \in 1..Len(s)}

\* ------------------------------------------------------------ content store

\* the DAG node pinset.storeSet builds for a set of binary identifiers
SetNode(bufs) == [kind |-> "set", keys |-> bufs]

\* DAGNode.create(Buffer.alloc(0))
EmptyNode == [kind |-> "empty", keys |-> {}]

\* content address of a stored node
CidOf(node) == [hash |-> node]

\* no address: the datastore key is absent, no root was built yet
NoCid == [hash |-> [kind |-> "none", keys |-> {}]]

\* new DAGLink(name, node.size, cid)
DAGLink(name, cid) == [name |-> name, cid |-> cid]

\* an empty this._linkCache entry (undefined)
NoLink == [name |-> "none", cid |-> NoCid]

\* DAGNode.create(Buffer.alloc(0), [dLink, rLink])
RootNode(dLink, rLink) == [kind |-> "root", links |-> <<dLink, rLink>>]

\* pinset.loadSet(rootNode, name): the identifiers of the set the link `name` points to
loadSet(rootNode, name) ==
  LET i == CHOOSE j \in 1..Len(rootNode.links) : rootNode.links[j].name = name
  IN rootNode.links[i].cid.hash.keys

\* pinset.getInternalCids(rootNode): the addresses of the blocks of both encodings
getInternalCids(rootNode) == [i \in 1..Len(rootNode.links) |-> rootNode.links[i].cid]

\* ------------------------------------------------------------------- state

VARIABLES
  heap,           \* the Set objects in use: object id -> members
  directPins,     \* this.directPins: the id of the current Set object
  recursivePins,  \* this.recursivePins
  linkCache,      \* this._linkCache: pin type -> DAGLink or NoLink
  lock,           \* this._lock: the writer and the readers inside it
  pinKey,         \* the value under PIN_DS_KEY in repo.datastore, or NoCid
  dagStore,       \* the nodes put into the content store that can still be asked for
  pc,             \* per call slot: the position of its callback chain
  op,             \* per call slot: the call and its arguments
  loc,            \* per call slot: the locals of the running chain
  res,            \* per call slot: what the callback was invoked with
  orphans,        \* bag of the flush tasks still in flight after their flush reported an error
  calls,          \* calls started so far, where the model bounds them
  fails,          \* store, datastore and codec calls that failed so far
  loaded          \* history: a load has replaced the sets from a root record and no
                  \* add or remove has persisted a root since

vars == <<heap, directPins, recursivePins, linkCache, lock, pinKey, dagStore,
          pc, op, loc, res, orphans, calls, fails, loaded>>

ObjIds == 1..(Cardinality(Procs) + 2)

NoOp == [name |-> None, type |-> None, keys |-> <<>>, recursive |-> FALSE,
         pinSet |-> 0, key |-> None, arg |-> [kind |-> "none"]]

\* locals of a running chain; the pre* fields remember the state its lock section began in
NoLoc == [dLink |-> NoLink, rLink |-> NoLink, pend |-> {}, dSnap |-> {}, rSnap |-> {},
          root |-> NoCid, cands |-> {}, added |-> {},
          preDirect |-> {}, preRecursive |-> {}, preKey |-> NoCid]

NoVal == [kind |-> "none"]

NoRes == [err |-> None, val |-> NoVal]

\* the root record an earlier process flushed for the sets D and R
StoredRoot(D, R) ==
  RootNode(DAGLink("direct", CidOf(SetNode({CIDBuffer(k) : k \in D}))),
           DAGLink("recursive", CidOf(SetNode({CIDBuffer(k) : k \in R}))))

\* the constructor: empty sets, an empty link cache, a new lock; the repository is
\* new, or holds the root record an earlier process left
Init ==
  /\ heap = [o \in ObjIds |-> {}]
  /\ directPins = 1
  /\ recursivePins = 2
  /\ linkCache = [direct |-> NoLink, recursive |-> NoLink]
  /\ lock = [writer |-> Nobody, readers |-> {}]
  /\ \/ pinKey = NoCid /\ dagStore = {}
     \/ \E D \in SUBSET PinKeys, R \in SUBSET PinKeys :
          /\ pinKey = CidOf(StoredRoot(D, R))
          /\ dagStore = {EmptyNode, StoredRoot(D, R)}
                          \cup {l.cid.hash : l \in Range(StoredRoot(D, R).links)}
  /\ pc = [p \in Slots |-> "idle"]
  /\ op = [p \in Slots |-> NoOp]
  /\ loc = [p \in Slots |-> NoLoc]
  /\ res = [p \in Slots |-> NoRes]
  /\ orphans = EmptyBag
  /\ calls = 0
  /\ fails = 0
  /\ loaded = FALSE

\* -------------------------------------------------------------------- lock

\* writeLock runs its function when nobody is inside the lock
WriteFree == lock.writer = Nobody /\ lock.readers = {}

\* readLock runs its function when no writer is inside the lock
ReadFree == lock.writer = Nobody

\* the lock's callback: the lock is released and the caller's callback gets (err, val)
Unlock(p) == [writer |-> IF lock.writer = p THEN Nobody ELSE lock.writer,
              readers |-> lock.readers \ {p}]

\* ----------------------------------------------------------------- helpers

\* directKeys(): binary forms of the members of the current direct set
directKeys(h) == {CIDBuffer(k) : k \in h[directPins]}

\* recursiveKeys()
recursiveKeys(h) == {CIDBuffer(k) : k \in h[recursivePins]}

\* Set objects nobody references any more are dropped
Collect(h, d, r, o) ==
  [x \in ObjIds |-> IF x \in {d, r} \cup {o[q].pinSet : q \in Slots} THEN h[x] ELSE {}]

Min(S) == CHOOSE x \in S : \A y \in S : x <= y

\* the state a lock section starts in, kept with the locals of its chain
Enter(p) == [NoLoc EXCEPT !.preDirect = heap[directPins],
                          !.preRecursive = heap[recursivePins],
                          !.preKey = pinKey]

ListVal(items) == [kind |-> "list", items |-> items]

RootVal(cid) == [kind |-> "root", cid |-> cid]

PinnedVal(key, pinned, reason) == [kind |-> "pinned", key |-> key, pinned |-> pinned, reason |-> reason]

KeysVal(keys) == [kind |-> "keys", keys |-> keys]

\* the nodes a link or a root address leads to
LinkRefs(link) == IF link = NoLink THEN {} ELSE {link.cid.hash}

RootRefs(cid) ==
  IF cid = NoCid THEN {}
  ELSE {cid.hash} \cup {cid.hash.links[i].cid.hash : i \in 1..Len(cid.hash.links)}

\* the stored nodes some call can still ask the content store for: those the
\* datastore key, the link cache or the locals of a running chain lead to
Addressable ==
  {EmptyNode} \cup RootRefs(pinKey)
    \cup LinkRefs(linkCache.direct) \cup LinkRefs(linkCache.recursive)
    \cup UNION {LinkRefs(loc[p].dLink) \cup LinkRefs(loc[p].rLink) \cup RootRefs(loc[p].root) : p \in Slots}

\* dag.put of the given nodes; dagStore keeps the addressable nodes only, no call
\* can tell whether any other node is stored
Put(nodes) == dagStore' = (dagStore \cup nodes) \cap Addressable'

\* the callback of a call is invoked with (err, val); a lock section ends with it
Finish(p, err, val) ==
  /\ pc' = [pc EXCEPT ![p] = "done"]
  /\ res' = [res EXCEPT ![p] = [err |-> err, val |-> val]]
  /\ lock' = Unlock(p)

\* the slot a new call takes
FirstFree(p) ==
  /\ pc[p] = "idle"
  /\ \A i, j \in 1..Len(ProcOrder) : (i < j /\ ProcOrder[j] = p) => pc[ProcOrder[i]] # "idle"

\* a call is started: the calls of the overlapping callers are bounded
Started(p) ==
  /\ p \in Procs => (FirstFree(p) /\ calls < MaxCalls)
  /\ calls' = IF p \in Procs THEN calls + 1 ELSE calls
  /\ UNCHANGED <<fails, loaded>>

\* a store, datastore or codec call fails, within the bound on failures
Failed == fails < MaxFails /\ fails' = fails + 1 /\ UNCHANGED <<calls, loaded>>

\* ------------------------------------------------------------- add / remove

\* addDirectPins handing the recursive Set object to _addPins
addDirectPins_RecursiveSet(p, keys) ==
  /\ pc[p] = "idle"
  /\ Started(p)
  /\ op' = [op EXCEPT ![p] = [NoOp EXCEPT !.name = "add", !.type = "direct",
                                           !.keys = keys, !.pinSet = recursivePins]]
  /\ pc' = [pc EXCEPT ![p] = "waitW"]
  /\ UNCHANGED <<heap, directPins, recursivePins, linkCache, lock, pinKey, loc, res, orphans>>
  /\ Put({})

\* addDirectPins(keys, callback): the Set object is picked when the call is made
addDirectPins(p, keys) ==
  /\ pc[p] = "idle"
  /\ Started(p)
  /\ op' = [op EXCEPT ![p] = [NoOp EXCEPT !.name = "add", !.type = "direct",
                                           !.keys = keys, !.pinSet = directPins]]
  /\ pc' = [pc EXCEPT ![p] = "waitW"]
  /\ UNCHANGED <<heap, directPins, recursivePins, linkCache, lock, pinKey, loc, res, orphans>>
  /\ Put({})

\* addRecursivePins(keys, callback)
addRecursivePins(p, keys) ==
  /\ pc[p] = "idle"
  /\ Started(p)
  /\ op' = [op EXCEPT ![p] = [NoOp EXCEPT !.name = "add", !.type = "recursive",
                                           !.keys = keys, !.pinSet = recursivePins]]
  /\ pc' = [pc EXCEPT ![p] = "waitW"]
  /\ UNCHANGED <<heap, directPins, recursivePins, linkCache, lock, pinKey, loc, res, orphans>>
  /\ Put({})

\* _flushPins up to its first suspension: the cached links are read, storeSet is
\* called for each missing one with the members of that moment, the empty node is put
FlushStart(base, h, cache) ==
  [base EXCEPT !.dLink = cache.direct,
               !.rLink = cache.recursive,
               !.pend = {"E"} \cup (IF cache.direct = NoLink THEN {"D"} ELSE {})
                              \cup (IF cache.recursive = NoLink THEN {"R"} ELSE {}),
               !.dSnap = IF cache.direct = NoLink THEN directKeys(h) ELSE {},
               !.rSnap = IF cache.recursive = NoLink THEN recursiveKeys(h) ELSE {}]

\* keys.filter(key => !pinSet.has(key))
NewKeys(keys, pinSet) == {k \in Range(keys) : k \notin heap[pinSet]}

\* _addPins inside the write lock: filter, drop the cache entry, insert, flush
_addPins(p) ==
  /\ pc[p] = "waitW"
  /\ op[p].name = "add"
  /\ WriteFree
  /\ LET pinSet == op[p].pinSet
         keys == NewKeys(op[p].keys, pinSet)
     IN IF keys = {}
        THEN /\ pc' = [pc EXCEPT ![p] = "done"]
             /\ res' = [res EXCEPT ![p] = [err |-> None, val |-> ListVal(<<>>)]]
             /\ UNCHANGED <<heap, linkCache, lock, loc>>
        ELSE LET cache == [linkCache EXCEPT ![op[p].type] = NoLink]
                 h == [heap EXCEPT ![pinSet] = @ \cup keys]
             IN /\ linkCache' = cache
                /\ heap' = h
                /\ lock' = [lock EXCEPT !.writer = p]
                /\ loc' = [loc EXCEPT ![p] = FlushStart([Enter(p) EXCEPT !.added = keys], h, cache)]
                /\ pc' = [pc EXCEPT ![p] = "flushPar"]
                /\ UNCHANGED res
  /\ UNCHANGED <<directPins, recursivePins, pinKey, op, orphans>>
  /\ Put({})
  /\ UNCHANGED <<calls, fails, loaded>>
\* rmPins without the early return for an empty key list
rmPins_NoEarlyReturn(p, keys, recursive) ==
  /\ pc[p] = "idle"
  /\ Started(p)
  /\ op' = [op EXCEPT ![p] = [NoOp EXCEPT !.name = "rm", !.keys = keys,
                                           !.recursive = recursive]]
  /\ pc' = [pc EXCEPT ![p] = "waitW"]
  /\ UNCHANGED <<heap, directPins, recursivePins, linkCache, lock, pinKey, loc, res, orphans>>
  /\ Put({})

\* rmPins(keys, recursive, callback): an empty list answers at once, without the lock
rmPins(p, keys, recursive) ==
  /\ pc[p] = "idle"
  /\ Started(p)
  /\ op' = [op EXCEPT ![p] = [NoOp EXCEPT !.name = "rm", !.keys = keys,
                                           !.recursive = recursive]]
  /\ IF Len(keys) = 0
     THEN /\ pc' = [pc EXCEPT ![p] = "done"]
          /\ res' = [res EXCEPT ![p] = [err |-> None, val |-> ListVal(<<>>)]]
     ELSE /\ pc' = [pc EXCEPT ![p] = "waitW"]
          /\ UNCHANGED res
  /\ UNCHANGED <<heap, directPins, recursivePins, linkCache, lock, pinKey, loc, orphans>>
  /\ Put({})
\* a loop that deletes from the direct set too when it deletes from the recursive set
RmLoop_Both(h, keys, i, recursive) ==
  [h EXCEPT ![recursivePins] = IF recursive THEN @ \ Range(keys) ELSE @,
            ![directPins] = @ \ Range(keys)]

RECURSIVE RmLoop(_, _, _, _)
\* for (const key of keys): delete from the recursive set if asked and present, else from the direct set
RmLoop(h, keys, i, recursive) ==
  IF i > Len(keys) THEN h
  ELSE LET key == keys[i]
       IN IF recursive /\ key \in h[recursivePins]
          THEN RmLoop([h EXCEPT ![recursivePins] = @ \ {key}], keys, i + 1, recursive)
          ELSE RmLoop([h EXCEPT ![directPins] = @ \ {key}], keys, i + 1, recursive)

\* rmPins inside the write lock: the loop, then the flush
RmPinsLocked(p) ==
  /\ pc[p] = "waitW"
  /\ op[p].name = "rm"
  /\ WriteFree
  /\ LET h == RmLoop(heap, op[p].keys, 1, op[p].recursive)
     IN /\ heap' = h
        /\ loc' = [loc EXCEPT ![p] = FlushStart(Enter(p), h, linkCache)]
  /\ lock' = [lock EXCEPT !.writer = p]
  /\ pc' = [pc EXCEPT ![p] = "flushPar"]
  /\ UNCHANGED <<directPins, recursivePins, linkCache, pinKey, op, res,
                 orphans>>
  /\ Put({})
  /\ UNCHANGED <<calls, fails, loaded>>

\* -------------------------------------------------------------------- flush

\* what a finished task of the parallel block leaves behind: storeSet stores the
\* encoding and the link is cached; the empty node is put
TaskStore(t, snap) ==
  CASE t = "D" -> {SetNode(snap)}
    [] t = "R" -> {SetNode(snap)}
    [] OTHER -> {EmptyNode}

TaskCache(t, snap) ==
  CASE t = "D" -> [linkCache EXCEPT !.direct = DAGLink("direct", CidOf(SetNode(snap)))]
    [] t = "R" -> [linkCache EXCEPT !.recursive = DAGLink("recursive", CidOf(SetNode(snap)))]
    [] OTHER -> linkCache

\* one task of the parallel block calls back without error; after the last one the
\* root node is created from dLink and rLink and its put is started
FlushTaskOk(p, t) ==
  /\ pc[p] = "flushPar"
  /\ t \in loc[p].pend
  /\ LET snap == IF t = "D" THEN loc[p].dSnap ELSE loc[p].rSnap
         cache == TaskCache(t, snap)
         pend == loc[p].pend \ {t}
     IN /\ linkCache' = cache
        /\ loc' = [loc EXCEPT ![p].pend = pend,
                              ![p].dLink = IF t = "D" THEN cache.direct ELSE @,
                              ![p].rLink = IF t = "R" THEN cache.recursive ELSE @]
        /\ pc' = [pc EXCEPT ![p] = IF pend = {} THEN "flushRoot" ELSE "flushPar"]
  /\ UNCHANGED <<heap, directPins, recursivePins, lock, pinKey, op, res, orphans>>
  /\ Put(TaskStore(t, IF t = "D" THEN loc[p].dSnap ELSE loc[p].rSnap))
  /\ UNCHANGED <<calls, fails, loaded>>

\* the tasks of a flush that are still in flight when it reports an error
Orphaned(p, t) ==
  {[task |-> u, snap |-> IF u = "D" THEN loc[p].dSnap
                         ELSE IF u = "R" THEN loc[p].rSnap ELSE {}] : u \in loc[p].pend \ {t}}

\* one task of the parallel block fails: the flush reports the error at once, the
\* other tasks keep running
FlushTaskFail(p, t) ==
  /\ Failed
  /\ pc[p] = "flushPar"
  /\ t \in loc[p].pend
  /\ orphans' = orphans (+) SetToBag(Orphaned(p, t))
  /\ loc' = [loc EXCEPT ![p].pend = {}]
  /\ Finish(p, t, NoVal)
  /\ UNCHANGED <<heap, directPins, recursivePins, linkCache, pinKey, op>>
  /\ Put({})

\* a task left behind by a failed flush calls back without error
OrphanOk(o) ==
  /\ BagIn(o, orphans)
  /\ orphans' = orphans (-) SetToBag({o})
  /\ linkCache' = TaskCache(o.task, o.snap)
  /\ UNCHANGED <<heap, directPins, recursivePins, lock, pinKey, pc, op, loc, res>>
  /\ Put(TaskStore(o.task, o.snap))
  /\ UNCHANGED <<calls, fails, loaded>>

\* a task left behind by a failed flush fails too
OrphanFail(o) ==
  /\ Failed
  /\ BagIn(o, orphans)
  /\ orphans' = orphans (-) SetToBag({o})
  /\ UNCHANGED <<heap, directPins, recursivePins, linkCache, lock, pinKey, pc, op, loc, res>>
  /\ Put({})
\* a flush that takes the address of the root record without storing the record
FlushRootOk_NotStored(p) ==
  /\ pc[p] = "flushRoot"
  /\ loc' = [loc EXCEPT ![p].root = CidOf(RootNode(loc[p].dLink, loc[p].rLink))]
  /\ pc' = [pc EXCEPT ![p] = "flushOpen"]
  /\ UNCHANGED <<heap, directPins, recursivePins, linkCache, lock, pinKey, op, res,
                 orphans>>
  /\ Put({})
  /\ UNCHANGED <<calls, fails, loaded>>

\* dag.put(root) calls back without error: root.multihash = cid.buffer
FlushRootOk(p) ==
  /\ pc[p] = "flushRoot"
  /\ loc' = [loc EXCEPT ![p].root = CidOf(RootNode(loc[p].dLink, loc[p].rLink))]
  /\ pc' = [pc EXCEPT ![p] = "flushOpen"]
  /\ UNCHANGED <<heap, directPins, recursivePins, linkCache, lock, pinKey, op, res,
                 orphans>>
  /\ Put({RootNode(loc[p].dLink, loc[p].rLink)})
  /\ UNCHANGED <<calls, fails, loaded>>

\* this.repo.closed ? this.repo.open(cb) : cb(null, null)
FlushOpenOk(p) ==
  /\ pc[p] = "flushOpen"
  /\ pc' = [pc EXCEPT ![p] = "flushPut"]
  /\ UNCHANGED <<heap, directPins, recursivePins, linkCache, lock, pinKey, op, loc, res, orphans>>
  /\ Put({})
  /\ UNCHANGED <<calls, fails, loaded>>

\* repo.datastore.put(PIN_DS_KEY, root.multihash) calls back without error
FlushPutOk(p) ==
  /\ pc[p] = "flushPut"
  /\ pinKey' = loc[p].root
  /\ Finish(p, None, RootVal(loc[p].root))
  /\ UNCHANGED <<heap, directPins, recursivePins, linkCache, op, loc,
                 orphans>>
  /\ Put({})
  /\ UNCHANGED <<calls, fails>>
  /\ loaded' = FALSE
\* a failing datastore put that has written the new address all the same
FlushFail_Written(p) ==
  /\ Failed
  /\ pc[p] \in {"flushRoot", "flushOpen", "flushPut"}
  /\ pinKey' = IF pc[p] = "flushPut" THEN loc[p].root ELSE pinKey
  /\ Finish(p, pc[p], NoVal)
  /\ UNCHANGED <<heap, directPins, recursivePins, linkCache, op, loc,
                 orphans>>
  /\ Put({})

\* the root put, the reopen or the datastore put fails: series stops, the flush reports it
FlushFail(p) ==
  /\ Failed
  /\ pc[p] \in {"flushRoot", "flushOpen", "flushPut"}
  /\ Finish(p, pc[p], NoVal)
  /\ UNCHANGED <<heap, directPins, recursivePins, linkCache, pinKey, op, loc,
                 orphans>>
  /\ Put({})

\* --------------------------------------------------------------------- load

\* load(callback)
load(p) ==
  /\ pc[p] = "idle"
  /\ Started(p)
  /\ op' = [op EXCEPT ![p] = [NoOp EXCEPT !.name = "load"]]
  /\ pc' = [pc EXCEPT ![p] = "waitW"]
  /\ UNCHANGED <<heap, directPins, recursivePins, linkCache, lock, pinKey, loc, res, orphans>>
  /\ Put({})

\* load inside the write lock: the waterfall starts
LoadLocked(p) ==
  /\ pc[p] = "waitW"
  /\ op[p].name = "load"
  /\ WriteFree
  /\ lock' = [lock EXCEPT !.writer = p]
  /\ loc' = [loc EXCEPT ![p] = Enter(p)]
  /\ pc' = [pc EXCEPT ![p] = "loadOpen"]
  /\ UNCHANGED <<heap, directPins, recursivePins, linkCache, pinKey, op, res,
                 orphans>>
  /\ Put({})
  /\ UNCHANGED <<calls, fails, loaded>>

\* this.repo.closed ? this.repo.datastore.open(cb) : cb(null, null)
LoadOpenOk(p) ==
  /\ pc[p] = "loadOpen"
  /\ pc' = [pc EXCEPT ![p] = "loadHas"]
  /\ UNCHANGED <<heap, directPins, recursivePins, linkCache, lock, pinKey, op, loc, res, orphans>>
  /\ Put({})
  /\ UNCHANGED <<calls, fails, loaded>>
\* a load that ends on 'No pins to load' without calling the lock callback
LoadHasOk_KeepsLock(p) ==
  /\ pc[p] = "loadHas"
  /\ IF pinKey # NoCid
     THEN /\ pc' = [pc EXCEPT ![p] = "loadGet"]
          /\ UNCHANGED <<res, lock>>
     ELSE /\ pc' = [pc EXCEPT ![p] = "done"]
          /\ res' = [res EXCEPT ![p] = [err |-> None, val |-> NoVal]]
          /\ UNCHANGED lock
  /\ UNCHANGED <<heap, directPins, recursivePins, linkCache, pinKey, op, loc,
                 orphans>>
  /\ Put({})
  /\ UNCHANGED <<calls, fails, loaded>>

\* repo.datastore.has(PIN_DS_KEY) answers: without the key 'No pins to load' ends
\* the waterfall and the lock callback is called with no error
LoadHasOk(p) ==
  /\ pc[p] = "loadHas"
  /\ IF pinKey # NoCid
     THEN /\ pc' = [pc EXCEPT ![p] = "loadGet"]
          /\ UNCHANGED <<res, lock>>
     ELSE Finish(p, None, NoVal)
  /\ UNCHANGED <<heap, directPins, recursivePins, linkCache, pinKey, op, loc,
                 orphans>>
  /\ Put({})
  /\ UNCHANGED <<calls, fails, loaded>>

\* repo.datastore.get(PIN_DS_KEY) answers with the stored address
LoadGetOk(p) ==
  /\ pc[p] = "loadGet"
  /\ pinKey # NoCid
  /\ loc' = [loc EXCEPT ![p].root = pinKey]
  /\ pc' = [pc EXCEPT ![p] = "loadDag"]
  /\ UNCHANGED <<heap, directPins, recursivePins, linkCache, lock, pinKey, op, res, orphans>>
  /\ Put({})
  /\ UNCHANGED <<calls, fails, loaded>>

\* dag.get(new CID(mh)) answers with the root record
LoadDagOk(p) ==
  /\ pc[p] = "loadDag"
  /\ loc[p].root.hash \in dagStore
  /\ pc' = [pc EXCEPT ![p] = "loadSets"]
  /\ UNCHANGED <<heap, directPins, recursivePins, linkCache, lock, pinKey, op, loc, res, orphans>>
  /\ Put({})
  /\ UNCHANGED <<calls, fails, loaded>>

\* both loadSet calls answered: the two sets are replaced by new Set objects
LoadSetsOk(p) ==
  /\ pc[p] = "loadSets"
  /\ LET pinRoot == loc[p].root.hash
         rKeys == loadSet(pinRoot, "recursive")
         dKeys == loadSet(pinRoot, "direct")
         free == ObjIds \ {op[q].pinSet : q \in Slots}
         d == Min(free)
         r == Min(free \ {d})
         h == [heap EXCEPT ![d] = {toB58String(b) : b \in dKeys},
                           ![r] = {toB58String(b) : b \in rKeys}]
     IN /\ \A i \in 1..Len(pinRoot.links) : pinRoot.links[i].cid.hash \in dagStore
        /\ directPins' = d
        /\ recursivePins' = r
        /\ heap' = Collect(h, d, r, op)
  /\ Finish(p, None, NoVal)
  /\ UNCHANGED <<linkCache, pinKey, op, loc, orphans>>
  /\ Put({})
  /\ UNCHANGED <<calls, fails>>
  /\ loaded' = TRUE

\* a step of the waterfall or a loadSet fails: the lock callback gets the error
LoadFail(p) ==
  /\ Failed
  /\ pc[p] \in {"loadOpen", "loadHas", "loadGet", "loadDag", "loadSets"}
  /\ Finish(p, pc[p], NoVal)
  /\ UNCHANGED <<heap, directPins, recursivePins, linkCache, pinKey, op, loc,
                 orphans>>
  /\ Put({})

\* ------------------------------------------------------------------ queries

\* isPinnedWithType with the direct check made before the recursive check
isPinnedWithType_DirectFirst(p, multihash, type) ==
  /\ pc[p] = "idle"
  /\ Started(p)
  /\ LET key == toB58String(multihash)
         asked == [NoOp EXCEPT !.name = "isPinned", !.type = type, !.key = key]
         answer(pinned, reason) ==
           /\ pc' = [pc EXCEPT ![p] = "done"]
           /\ res' = [res EXCEPT ![p] = [err |-> None, val |-> PinnedVal(key, pinned, reason)]]
     IN /\ op' = [op EXCEPT ![p] = asked]
        /\ IF type \in {"direct", "all"} /\ key \in heap[directPins]
           THEN answer(TRUE, "direct")
           ELSE IF type = "direct"
           THEN answer(FALSE, None)
           ELSE IF type \in {"recursive", "all"} /\ key \in heap[recursivePins]
           THEN answer(TRUE, "recursive")
           ELSE IF type = "recursive"
           THEN answer(FALSE, None)
           ELSE /\ pc' = [pc EXCEPT ![p] = "waitR"]
                /\ UNCHANGED res
  /\ UNCHANGED <<heap, directPins, recursivePins, linkCache, lock, pinKey, loc, orphans>>
  /\ Put({})

\* isPinnedWithType(multihash, type, callback): the recursive and direct checks
\* answer at once; the indirect search waits for the read lock
isPinnedWithType(p, multihash, type) ==
  /\ pc[p] = "idle"
  /\ Started(p)
  /\ LET key == toB58String(multihash)
         asked == [NoOp EXCEPT !.name = "isPinned", !.type = type, !.key = key]
         answer(pinned, reason) ==
           /\ pc' = [pc EXCEPT ![p] = "done"]
           /\ res' = [res EXCEPT ![p] = [err |-> None, val |-> PinnedVal(key, pinned, reason)]]
     IN /\ op' = [op EXCEPT ![p] = asked]
        /\ IF type \in {"recursive", "all"} /\ key \in heap[recursivePins]
           THEN answer(TRUE, "recursive")
           ELSE IF type = "recursive"
           THEN answer(FALSE, None)
           ELSE IF type \in {"direct", "all"} /\ key \in heap[directPins]
           THEN answer(TRUE, "direct")
           ELSE IF type = "direct"
           THEN answer(FALSE, None)
           ELSE /\ pc' = [pc EXCEPT ![p] = "waitR"]
                /\ UNCHANGED res
  /\ UNCHANGED <<heap, directPins, recursivePins, linkCache, lock, pinKey, loc, orphans>>
  /\ Put({})

\* inside the read lock: detectLimit starts on every recursive key of that moment
SearchLocked(p) ==
  /\ pc[p] = "waitR"
  /\ op[p].name = "isPinned"
  /\ ReadFree
  /\ lock' = [lock EXCEPT !.readers = @ \cup {p}]
  /\ loc' = [loc EXCEPT ![p] = [Enter(p) EXCEPT !.cands = recursiveKeys(heap)]]
  /\ pc' = [pc EXCEPT ![p] = "search"]
  /\ UNCHANGED <<heap, directPins, recursivePins, linkCache, pinKey, op, res,
                 orphans>>
  /\ Put({})
  /\ UNCHANGED <<calls, fails, loaded>>

\* pinset.hasDescendant(node, key) on the node of a recursive key
hasDescendant(cid, key) == key \in Descendants(toB58String(cid))

\* detectLimit found a recursive key with the asked key below it
SearchFound(p, cid) ==
  /\ pc[p] = "search"
  /\ cid \in loc[p].cands
  /\ hasDescendant(cid, op[p].key)
  /\ Finish(p, None, PinnedVal(op[p].key, TRUE, toB58String(cid)))
  /\ UNCHANGED <<heap, directPins, recursivePins, linkCache, pinKey, op, loc,
                 orphans>>
  /\ Put({})
  /\ UNCHANGED <<calls, fails, loaded>>

\* detectLimit tested every recursive key and found none
SearchNone(p) ==
  /\ pc[p] = "search"
  /\ \A cid \in loc[p].cands : ~hasDescendant(cid, op[p].key)
  /\ Finish(p, None, PinnedVal(op[p].key, FALSE, None))
  /\ UNCHANGED <<heap, directPins, recursivePins, linkCache, pinKey, op, loc,
                 orphans>>
  /\ Put({})
  /\ UNCHANGED <<calls, fails, loaded>>

\* a dag.get or hasDescendant of the search fails first
SearchFail(p) ==
  /\ Failed
  /\ pc[p] = "search"
  /\ loc[p].cands # {}
  /\ Finish(p, "search", NoVal)
  /\ UNCHANGED <<heap, directPins, recursivePins, linkCache, pinKey, op, loc,
                 orphans>>
  /\ Put({})

\* getIndirectKeys(callback)
getIndirectKeys(p) ==
  /\ pc[p] = "idle"
  /\ Started(p)
  /\ op' = [op EXCEPT ![p] = [NoOp EXCEPT !.name = "indirect"]]
  /\ pc' = [pc EXCEPT ![p] = "waitR"]
  /\ UNCHANGED <<heap, directPins, recursivePins, linkCache, lock, pinKey, loc, res, orphans>>
  /\ Put({})

\* inside the read lock: eachLimit starts on every recursive key of that moment
IndirectLocked(p) ==
  /\ pc[p] = "waitR"
  /\ op[p].name = "indirect"
  /\ ReadFree
  /\ lock' = [lock EXCEPT !.readers = @ \cup {p}]
  /\ loc' = [loc EXCEPT ![p] = [Enter(p) EXCEPT !.cands = recursiveKeys(heap)]]
  /\ pc' = [pc EXCEPT ![p] = "collect"]
  /\ UNCHANGED <<heap, directPins, recursivePins, linkCache, pinKey, op, res,
                 orphans>>
  /\ Put({})
  /\ UNCHANGED <<calls, fails, loaded>>

\* the keys of the nodes below the given roots, the recursive pins not filtered out
IndirectKeys_Unfiltered(roots) ==
  UNION {{toB58String(n) : n \in getRecursive(m)} : m \in roots}

\* the keys of the nodes at or below the given roots that are not recursive pins themselves
IndirectKeys(roots) ==
  {key \in UNION {{toB58String(n) : n \in getRecursive(m)} : m \in roots} :
     key \notin heap[recursivePins]}

\* every _getRecursive answered: the collected keys are returned
IndirectOk(p) ==
  /\ pc[p] = "collect"
  /\ Finish(p, None, KeysVal(IndirectKeys(loc[p].cands)))
  /\ UNCHANGED <<heap, directPins, recursivePins, linkCache, pinKey, op, loc,
                 orphans>>
  /\ Put({})
  /\ UNCHANGED <<calls, fails, loaded>>

\* a _getRecursive fails: eachLimit reports the error, nothing is returned
IndirectFail(p) ==
  /\ Failed
  /\ pc[p] = "collect"
  /\ loc[p].cands # {}
  /\ Finish(p, "getRecursive", NoVal)
  /\ UNCHANGED <<heap, directPins, recursivePins, linkCache, pinKey, op, loc,
                 orphans>>
  /\ Put({})

\* getInternalBlocks(callback)
getInternalBlocks(p) ==
  /\ pc[p] = "idle"
  /\ Started(p)
  /\ op' = [op EXCEPT ![p] = [NoOp EXCEPT !.name = "internal"]]
  /\ pc' = [pc EXCEPT ![p] = "waitW"]
  /\ UNCHANGED <<heap, directPins, recursivePins, linkCache, lock, pinKey, loc, res, orphans>>
  /\ Put({})

\* getInternalBlocks inside the write lock: repo.datastore.get is started
InternalLocked(p) ==
  /\ pc[p] = "waitW"
  /\ op[p].name = "internal"
  /\ WriteFree
  /\ lock' = [lock EXCEPT !.writer = p]
  /\ loc' = [loc EXCEPT ![p] = Enter(p)]
  /\ pc' = [pc EXCEPT ![p] = "gibGet"]
  /\ UNCHANGED <<heap, directPins, recursivePins, linkCache, pinKey, op, res,
                 orphans>>
  /\ Put({})
  /\ UNCHANGED <<calls, fails, loaded>>

\* repo.datastore.get(PIN_DS_KEY) answers: ERR_NOT_FOUND gives the empty list
InternalGetOk(p) ==
  /\ pc[p] = "gibGet"
  /\ IF pinKey = NoCid
     THEN /\ Finish(p, None, ListVal(<<>>))
          /\ UNCHANGED loc
     ELSE /\ loc' = [loc EXCEPT ![p].root = pinKey]
          /\ pc' = [pc EXCEPT ![p] = "gibDag"]
          /\ UNCHANGED <<res, lock>>
  /\ UNCHANGED <<heap, directPins, recursivePins, linkCache, pinKey, op,
                 orphans>>
  /\ Put({})
  /\ UNCHANGED <<calls, fails, loaded>>

\* dag.get(cid) answers with the root record
InternalDagOk(p) ==
  /\ pc[p] = "gibDag"
  /\ loc[p].root.hash \in dagStore
  /\ pc' = [pc EXCEPT ![p] = "gibCids"]
  /\ UNCHANGED <<heap, directPins, recursivePins, linkCache, lock, pinKey, op, loc, res, orphans>>
  /\ Put({})
  /\ UNCHANGED <<calls, fails, loaded>>
\* getInternalBlocks answering with the root address first: [cid].concat(cids)
InternalCidsOk_RootFirst(p) ==
  /\ pc[p] = "gibCids"
  /\ Finish(p, None, ListVal(<<loc[p].root>> \o getInternalCids(loc[p].root.hash)))
  /\ UNCHANGED <<heap, directPins, recursivePins, linkCache, pinKey, op, loc,
                 orphans>>
  /\ Put({})
  /\ UNCHANGED <<calls, fails, loaded>>

\* pinset.getInternalCids answers: lockCb(null, cids.concat(cid))
InternalCidsOk(p) ==
  /\ pc[p] = "gibCids"
  /\ Finish(p, None, ListVal(Append(getInternalCids(loc[p].root.hash), loc[p].root)))
  /\ UNCHANGED <<heap, directPins, recursivePins, linkCache, pinKey, op, loc,
                 orphans>>
  /\ Put({})
  /\ UNCHANGED <<calls, fails, loaded>>

\* another datastore error, or dag.get or getInternalCids fails
InternalFail(p) ==
  /\ Failed
  /\ pc[p] \in {"gibGet", "gibDag", "gibCids"}
  /\ Finish(p, pc[p], NoVal)
  /\ UNCHANGED <<heap, directPins, recursivePins, linkCache, pinKey, op, loc,
                 orphans>>
  /\ Put({})
\* ------------------------------------------------------------- checkPinType

\* a JavaScript value handed to checkPinType: what typeof gives, and its text
JsValue(kind, str) == [kind |-> kind, str |-> str]

\* the values the callers try: the four names, other strings, and values that are
\* no strings (a number, undefined, a String object or array holding a valid name)
JsValues ==
  {JsValue("string", s) : s \in PinTypes \cup {"", "Direct", "pinned", "direct "}}
    \cup {JsValue("number", "0"), JsValue("undefined", ""),
          JsValue("object", "direct"), JsValue("object", "all")}

\* invalidPinTypeErr(type): the error code
invalidPinTypeErr(type) == "ERR_INVALID_PIN_TYPE"

\* checkPinType without the typeof test
checkPinType_NoTypeof(type) ==
  IF type.str \notin PinTypes THEN invalidPinTypeErr(type) ELSE None

\* static checkPinType(type): the error, or nothing
checkPinType(type) ==
  IF type.kind # "string" \/ type.str \notin PinTypes
  THEN invalidPinTypeErr(type)
  ELSE None

\* a caller calls PinManager.checkPinType(type) and has the answer at once
CheckPinTypeCall(p, type) ==
  /\ pc[p] = "idle"
  /\ Started(p)
  /\ op' = [op EXCEPT ![p] = [NoOp EXCEPT !.name = "check", !.arg = type]]
  /\ pc' = [pc EXCEPT ![p] = "done"]
  /\ res' = [res EXCEPT ![p] = [err |-> checkPinType(type), val |-> NoVal]]
  /\ UNCHANGED <<heap, directPins, recursivePins, linkCache, lock, pinKey, loc, orphans>>
  /\ Put({})

\* the caller is done with the result; its slot takes the next call
Return(p) ==
  /\ pc[p] = "done"
  /\ pc' = [pc EXCEPT ![p] = "idle"]
  /\ op' = [op EXCEPT ![p] = NoOp]
  /\ loc' = [loc EXCEPT ![p] = NoLoc]
  /\ res' = [res EXCEPT ![p] = NoRes]
  /\ heap' = Collect(heap, directPins, recursivePins, op')
  /\ UNCHANGED <<directPins, recursivePins, linkCache, lock, pinKey, orphans>>
  /\ Put({})
  /\ UNCHANGED <<calls, fails, loaded>>

\* ----------------------------------------------------------- specifications

\* a call that changes the pins or reloads them
Mutate(p, n) ==
  \/ \E keys \in KeyLists(n) : addDirectPins(p, keys)
  \/ \E keys \in KeyLists(n) : addRecursivePins(p, keys)
  \/ \E keys \in KeyLists(n), recursive \in BOOLEAN : rmPins(p, keys, recursive)

\* a call that only reads
Query(p) ==
  \/ \E multihash \in Buffers, type \in PinTypes : isPinnedWithType(p, multihash, type)
  \/ getIndirectKeys(p)
  \/ getInternalBlocks(p)

\* a callback of a running add or remove that carries no error
FlushStep(p) ==
  \/ _addPins(p)
  \/ RmPinsLocked(p)
  \/ \E t \in {"D", "R", "E"} : FlushTaskOk(p, t)
  \/ FlushRootOk(p)
  \/ FlushOpenOk(p)
  \/ FlushPutOk(p)

\* a callback of a running load that carries no error
LoadStep(p) ==
  \/ LoadLocked(p) \/ LoadOpenOk(p) \/ LoadHasOk(p) \/ LoadGetOk(p)
  \/ LoadDagOk(p) \/ LoadSetsOk(p)

\* a callback of a running query that carries no error
QueryStep(p) ==
  \/ SearchLocked(p) \/ SearchNone(p)
  \/ \E cid \in Buffers : SearchFound(p, cid)
  \/ IndirectLocked(p) \/ IndirectOk(p)
  \/ InternalLocked(p) \/ InternalGetOk(p) \/ InternalDagOk(p) \/ InternalCidsOk(p)

\* a callback of a running flush that carries an error
FlushFailure(p) ==
  \/ \E t \in {"D", "R", "E"} : FlushTaskFail(p, t)
  \/ FlushFail(p)

\* a callback of a running query that carries an error
QueryFailure(p) ==
  \/ SearchFail(p)
  \/ IndirectFail(p)
  \/ InternalFail(p)

Orphan == \E o \in BagToSet(orphans) : OrphanOk(o) \/ OrphanFail(o)

\* any interleaving of the calls of two callers, any call of the stores may fail
Next ==
  \/ \E p \in Procs : Mutate(p, MaxKeysFaulty) \/ load(p) \/ Query(p)
  \/ \E p \in Procs : FlushStep(p) \/ LoadStep(p) \/ QueryStep(p) \/ Return(p)
  \/ \E p \in Procs : FlushFailure(p) \/ LoadFail(p) \/ QueryFailure(p)
  \/ Orphan

Spec == Init /\ [][Next]_vars

\* any interleaving of the adds, removes and loads of two callers, no call of the
\* stores fails
NextRace ==
  \/ \E p \in Procs : Mutate(p, MaxKeysFaulty) \/ load(p)
  \/ \E p \in Procs : FlushStep(p) \/ LoadStep(p) \/ Return(p)

SpecRace == Init /\ [][NextRace]_vars

\* one add, remove or load at a time, any call of the stores may fail
NextSeq ==
  \/ Mutate(Caller, MaxKeysFaulty) \/ load(Caller)
  \/ FlushStep(Caller) \/ LoadStep(Caller) \/ Return(Caller)
  \/ FlushFailure(Caller) \/ LoadFail(Caller)
  \/ Orphan

SpecSeq == Init /\ [][NextSeq]_vars

\* one add or remove at a time, no call of the stores fails
NextAddRm ==
  \/ Mutate(Caller, MaxKeys)
  \/ FlushStep(Caller) \/ Return(Caller)

SpecAddRm == Init /\ [][NextAddRm]_vars

\* one add, remove or query at a time, only the calls made by the queries may fail
NextQuery ==
  \/ Mutate(Caller, MaxKeys) \/ Query(Caller)
  \/ FlushStep(Caller) \/ QueryStep(Caller) \/ Return(Caller)
  \/ QueryFailure(Caller)

SpecQuery == Init /\ [][NextQuery]_vars
\* the lock grants the call in slot p its section
Grant(p) ==
  \/ _addPins(p) \/ RmPinsLocked(p) \/ LoadLocked(p)
  \/ SearchLocked(p) \/ IndirectLocked(p) \/ InternalLocked(p)

\* a store, datastore or codec call made by the call in slot p answers, with a
\* result or with an error
Answer(p) ==
  \/ \E t \in {"D", "R", "E"} : FlushTaskOk(p, t) \/ FlushTaskFail(p, t)
  \/ FlushRootOk(p) \/ FlushOpenOk(p) \/ FlushPutOk(p) \/ FlushFail(p)
  \/ LoadOpenOk(p) \/ LoadHasOk(p) \/ LoadGetOk(p) \/ LoadDagOk(p) \/ LoadSetsOk(p)
  \/ LoadFail(p)
  \/ SearchNone(p) \/ SearchFail(p) \/ (\E cid \in Buffers : SearchFound(p, cid))
  \/ IndirectOk(p) \/ IndirectFail(p)
  \/ InternalGetOk(p) \/ InternalDagOk(p) \/ InternalCidsOk(p) \/ InternalFail(p)

\* a new repository, or one holding a root record with a direct and a recursive pin
InitLive == Init /\ pinKey \in {NoCid, CidOf(StoredRoot({"k1"}, {"k2"}))}

\* the interleavings of Next where every call of the stores answers in the end and
\* the lock grants every waiting call in the end
SpecLive ==
  /\ InitLive
  /\ [][Next]_vars
  /\ \A p \in Procs : WF_vars(Answer(p))
  /\ \A p \in Procs : SF_vars(Grant(p))

\* one add, remove or type check at a time, no call of the stores fails
NextCheck ==
  \/ Mutate(Caller, MaxKeysFaulty)
  \/ \E type \in JsValues : CheckPinTypeCall(Caller, type)
  \/ FlushStep(Caller) \/ Return(Caller)

SpecCheck == Init /\ [][NextCheck]_vars

\* ------------------------------------------------------------------ claims

\* the members of the current in-memory sets
Direct == heap[directPins]

Recursive == heap[recursivePins]

SetOf(type) == IF type = "direct" THEN Direct ELSE Recursive

\* what load on a fresh instance would decode from the value under the root key
Persisted(type) ==
  IF pinKey = NoCid THEN {}
  ELSE {toB58String(b) : b \in loadSet(pinKey.hash, type)}

\* the call in slot p has called back without error
Succeeded(p, name) == pc[p] = "done" /\ op[p].name = name /\ res[p].err = None

\* the step in which the call in slot p calls back
Returns(p) == pc[p] # "done" /\ pc'[p] = "done"

\* C1: after an add or a remove that flushed and succeeded, with no failure and no
\* overlapping call, the persisted root encodes exactly the two in-memory sets
C1_PersistedEqualsMemory ==
  \A p \in Slots :
    (pc[p] = "done" /\ op[p].name \in {"add", "rm"} /\ res[p].err = None
       /\ res[p].val.kind = "root")
    => (Persisted("direct") = Direct /\ Persisted("recursive") = Recursive)

\* C2: under any interleaving, when an add that found new keys reports success, the
\* new keys are in the current in-memory set of its type and in the set that the
\* root it just persisted encodes
C2_AddSeenByFlush ==
  [][\A p \in Slots :
       (op[p].name = "add" /\ pc[p] = "flushPut" /\ Returns(p) /\ res'[p].err = None)
       => (loc[p].added \subseteq SetOf(op[p].type)'
           /\ loc[p].added \subseteq Persisted(op[p].type)')]_vars

\* C3: every add that reports success, also with an empty result, leaves every key
\* it was given in the persisted set of its type
C3_SuccessIsDurable ==
  [][\A p \in Slots :
       (op[p].name = "add" /\ Returns(p) /\ res'[p].err = None)
       => Range(op[p].keys) \subseteq Persisted(op[p].type)']_vars

\* the identifier is a recursive pin and lies below another recursive pin
PinnedBelowPin(key) ==
  key \in Recursive /\ \E r \in Recursive \ {key} : key \in Descendants(r)

\* C4: for a recursive pin below another recursive pin, the query for 'indirect'
\* reports not pinned and the query for 'all' reports pinned with reason 'recursive'
C4_RecursivePreempts ==
  \A p \in Slots :
    (Succeeded(p, "isPinned") /\ PinnedBelowPin(op[p].key))
    => /\ op[p].type = "indirect" => ~res[p].val.pinned
       /\ op[p].type = "all" => (res[p].val.pinned /\ res[p].val.reason = "recursive")

\* C5: with no overlapping call, the query for 'all' reports pinned iff the
\* identifier is a recursive pin, a direct pin or below a recursive pin; the reason
\* is 'recursive', else 'direct', else a recursive pin it lies below, else none
C5_AllQuery ==
  \A p \in Slots :
    (Succeeded(p, "isPinned") /\ op[p].type = "all")
    => LET id == op[p].key
           above == {r \in Recursive : id \in Descendants(r)}
           val == res[p].val
       IN /\ val.key = id
          /\ val.pinned <=> (id \in Recursive \/ id \in Direct \/ above # {})
          /\ id \in Recursive => val.reason = "recursive"
          /\ (id \notin Recursive /\ id \in Direct) => val.reason = "direct"
          /\ (id \notin Recursive /\ id \notin Direct /\ above # {}) => val.reason \in above
          /\ (id \notin Recursive /\ id \notin Direct /\ above = {}) => val.reason = None

\* a query for 'all' answered with one of several recursive pins above the identifier
C5_Witness ==
  \E p \in Slots :
    /\ Succeeded(p, "isPinned") /\ op[p].type = "all"
    /\ res[p].val.pinned /\ res[p].val.reason \in Recursive
    /\ Cardinality({r \in Recursive : op[p].key \in Descendants(r)}) > 1

\* C6: an add whose keys are all in the set of its type when it takes the lock
\* answers with the empty list and changes neither the sets, the link cache nor
\* the value under the root key
C6_IdempotentAdd ==
  [][\A p \in Slots :
       (op[p].name = "add" /\ pc[p] = "waitW" /\ pc'[p] # "waitW"
          /\ Range(op[p].keys) \subseteq SetOf(op[p].type))
       => /\ pc'[p] = "done"
          /\ res'[p] = [err |-> None, val |-> ListVal(<<>>)]
          /\ UNCHANGED <<heap, directPins, recursivePins, linkCache, pinKey>>]_vars

\* C7: a remove of identifiers that are in neither set leaves the value under the
\* root key as it was, whatever state the remove began in
C7_RemoveNoop ==
  [][\A p \in Slots :
       (op[p].name = "rm" /\ Returns(p) /\ res'[p].err = None
          /\ Range(op[p].keys) \cap (loc[p].preDirect \cup loc[p].preRecursive) = {})
       => pinKey' = loc[p].preKey]_vars

\* C8: a load that finds no root key reports success and both sets are empty then
C8_EmptyStateLoad ==
  [][\A p \in Slots :
       (op[p].name = "load" /\ Returns(p) /\ pinKey = NoCid /\ res'[p].err = None)
       => (Direct' = {} /\ Recursive' = {})]_vars

\* C9 as stated: no identifier is in both sets
C9_Disjoint == Direct \cap Recursive = {}

\* the add in slot p inserts, into the set of its type, a key that the other set holds
AddsPinnedOtherwise(p) ==
  /\ op[p].name = "add" /\ pc[p] = "waitW" /\ pc'[p] = "flushPar"
  /\ NewKeys(op[p].keys, op[p].pinSet)
       \cap SetOf(IF op[p].type = "direct" THEN "recursive" ELSE "direct") # {}

\* the load in slot p replaces both sets
Reloads(p) == op[p].name = "load" /\ pc[p] = "loadSets" /\ Returns(p)

\* C9 amended: the sets stop being disjoint only by an add of a key that the other
\* set holds at that moment, or by a load of a root record that lists a key in both
C9_DisjointKept ==
  [][(C9_Disjoint /\ ~C9_Disjoint')
       => \E p \in Slots : AddsPinnedOtherwise(p) \/ Reloads(p)]_vars

\* an add has put a new key into one set while the other set is not empty, and the
\* sets are disjoint
C9_Witness ==
  \E p \in Slots :
    /\ Succeeded(p, "add") /\ loc[p].added # {}
    /\ Direct # {} /\ Recursive # {} /\ C9_Disjoint

\* C10: getIndirectKeys answers with exactly the identifiers at or below a recursive
\* pin that are not recursive pins themselves, and with nothing when it reports an error
C10_IndirectKeys ==
  \A p \in Slots :
    (pc[p] = "done" /\ op[p].name = "indirect")
    => IF res[p].err = None
       THEN /\ res[p].val.kind = "keys"
            /\ res[p].val.keys =
                 {k \in Keys : k \notin Recursive
                               /\ \E r \in Recursive : k = r \/ k \in Descendants(r)}
            /\ res[p].val.keys \cap Recursive = {}
       ELSE res[p].val = NoVal

\* getIndirectKeys answered while one recursive pin lies below another
C10_Witness ==
  \E p \in Slots :
    /\ Succeeded(p, "indirect") /\ res[p].val.keys # {}
    /\ \E r \in Recursive : Descendants(r) \cap Recursive # {}

\* the call in slot p is a getInternalBlocks call, before or after the step
IsInternal(p) == op[p].name = "internal" \/ op'[p].name = "internal"

\* C11: getInternalBlocks answers with the empty list when the root key is absent,
\* else with the codec's internal addresses of the persisted root record followed by
\* the record's own address, or with an error and nothing else; no step of the call
\* changes the in-memory sets, the link cache or the value under the root key
C11_InternalBlocks ==
  [][\A p \in Slots :
       IsInternal(p)
       => /\ UNCHANGED <<Direct, Recursive, linkCache, pinKey>>
          /\ Returns(p)
             => IF res'[p].err = None
                THEN IF pinKey = NoCid
                     THEN res'[p].val = ListVal(<<>>)
                     ELSE /\ res'[p].val.kind = "list"
                          /\ res'[p].val.items = Append(getInternalCids(pinKey.hash), pinKey)
                          /\ res'[p].val.items[Len(res'[p].val.items)] = pinKey
                ELSE res'[p].val = NoVal]_vars

\* getInternalBlocks answered with the addresses of a root record that lists pins
C11_Witness ==
  \E p \in Slots :
    /\ Succeeded(p, "internal")
    /\ pinKey # NoCid
    /\ Len(res[p].val.items) = 3
    /\ res[p].val.items[3] = pinKey
    /\ Persisted("direct") # {} /\ Persisted("recursive") # {}

\* C12: checkPinType gives no error iff the value is a string equal to 'direct',
\* 'recursive', 'indirect' or 'all', gives ERR_INVALID_PIN_TYPE for every other value,
\* whatever the state of the manager, and changes nothing of it
C12_CheckPinType ==
  [][\A p \in Slots :
       (op'[p].name = "check" /\ Returns(p))
       => /\ res'[p].err = None
               <=> (op'[p].arg.kind = "string"
                    /\ op'[p].arg.str \in {"direct", "recursive", "indirect", "all"})
          /\ res'[p].err # None => res'[p].err = "ERR_INVALID_PIN_TYPE"
          /\ UNCHANGED <<heap, directPins, recursivePins, linkCache, lock, pinKey, dagStore>>]_vars

\* a value that is no string but reads like a valid name was refused while pins exist
C12_Witness ==
  \E p \in Slots :
    /\ pc[p] = "done" /\ op[p].name = "check"
    /\ op[p].arg = JsValue("object", "direct")
    /\ res[p].err = "ERR_INVALID_PIN_TYPE"
    /\ Direct # {}

\* the link cache entry of the type is absent or encodes the current in-memory set
CacheEncodes(type) ==
  \/ linkCache[type] = NoLink
  \/ linkCache[type].cid.hash.keys = {CIDBuffer(k) : k \in SetOf(type)}

\* C13: whenever no write-lock section is active, every link cache entry that is
\* present encodes exactly the current in-memory set of its type
C13_LinkCacheCoherent ==
  lock.writer = Nobody => (CacheEncodes("direct") /\ CacheEncodes("recursive"))

\* the positions of a running flush
FlushPcs == {"flushPar", "flushRoot", "flushOpen", "flushPut"}

\* the sets hold what the add or remove in slot p did to them
Mutated(p) ==
  IF op[p].name = "add"
  THEN loc[p].added # {} /\ loc[p].added \subseteq SetOf(op[p].type)
  ELSE \A k \in Range(op[p].keys) :
         \/ k \notin Direct
         \/ op[p].recursive /\ k \in loc[p].preRecursive /\ k \notin Recursive

PersistedIsMemory == Persisted("direct") = Direct /\ Persisted("recursive") = Recursive

\* C15: a successful load that found a root record leaves the in-memory sets equal to
\* the persisted ones, and the next add or remove that flushes and succeeds persists
\* a root that encodes exactly the in-memory sets of that moment
C15_RecoveryByLoad ==
  [][\A p \in Slots :
       /\ (op[p].name = "load" /\ pc[p] = "loadSets" /\ Returns(p) /\ res'[p].err = None)
          => PersistedIsMemory'
       /\ (op[p].name \in {"add", "rm"} /\ pc[p] = "flushPut" /\ Returns(p)
             /\ res'[p].err = None /\ loaded)
          => PersistedIsMemory']_vars

\* the remove in slot p runs its loop in this step
Removes(p) == op[p].name = "rm" /\ pc[p] = "waitW" /\ pc'[p] = "flushPar"

\* the key is passed exactly once
PassedOnce(keys, k) == Cardinality({i \in 1..Len(keys) : keys[i] = k}) = 1

\* C16: rmPins removes a passed key from the recursive set if recursive is requested
\* and the key is a recursive pin, and leaves the direct set alone for that key; in
\* every other case it removes the key from the direct set only; it never changes
\* the recursive set without recursive, and never removes a key it was not passed
C16_RemoveTarget ==
  [][\A p \in Slots :
       Removes(p)
       => LET keys == op[p].keys
              passed == Range(keys)
          IN /\ (Direct \ Direct') \cup (Recursive \ Recursive') \subseteq passed
             /\ Direct' \subseteq Direct /\ Recursive' \subseteq Recursive
             /\ ~op[p].recursive
                => (Recursive' = Recursive /\ Direct' = Direct \ passed)
             /\ op[p].recursive
                => /\ Recursive' = Recursive \ passed
                   /\ \A k \in passed :
                        /\ k \notin Recursive => k \notin Direct'
                        /\ (k \in Recursive /\ k \in Direct /\ PassedOnce(keys, k))
                           => k \in Direct']_vars

\* a key in both sets was removed with recursive requested: it left the recursive
\* set and stayed in the direct set
C16_Witness ==
  \E p \in Slots :
    /\ Succeeded(p, "rm") /\ op[p].recursive
    /\ \E k \in Range(op[p].keys) :
         /\ k \in loc[p].preRecursive /\ k \in loc[p].preDirect
         /\ k \notin Recursive /\ k \in Direct

\* C17: rmPins with an empty key list answers at once with no error and the empty
\* list, whoever holds the lock, and changes neither the lock, the in-memory sets,
\* the link cache, the content store nor the value under the root key
C17_RemoveNothing ==
  [][\A p \in Slots :
       (pc[p] = "idle" /\ op'[p].name = "rm" /\ Len(op'[p].keys) = 0)
       => /\ pc'[p] = "done"
          /\ res'[p] = [err |-> None, val |-> ListVal(<<>>)]
          /\ UNCHANGED <<heap, directPins, recursivePins, linkCache, lock, pinKey, dagStore>>]_vars

\* a remove with an empty key list has answered while another call holds the write lock
C17_Witness ==
  \E p \in Slots :
    /\ Succeeded(p, "rm") /\ op[p].keys = <<>> /\ res[p].val = ListVal(<<>>)
    /\ lock.writer \in Slots \ {p}

\* the positions inside a write-lock section and inside a read-lock section
WritePcs == FlushPcs \cup {"loadOpen", "loadHas", "loadGet", "loadDag", "loadSets",
                           "gibGet", "gibDag", "gibCids"}

ReadPcs == {"search", "collect"}

\* the step is one of the call in slot p
StepOf(p) == pc'[p] # pc[p] \/ loc'[p] # loc[p]

\* C18: the in-memory sets, the link cache and the value under the root key change
\* only in a step of the call that holds the write lock; at most one write-lock
\* section is active, none while a read-lock section is active, the recursive set
\* does not change during a read-lock section, and a query for 'direct' or
\* 'recursive' answers at once without the lock
C18_LockDiscipline ==
  [][/\ (Direct' # Direct \/ Recursive' # Recursive \/ linkCache' # linkCache
           \/ pinKey' # pinKey)
        => \E p \in Slots : StepOf(p) /\ (lock.writer = p \/ lock'.writer = p)
     /\ Cardinality({p \in Slots : pc[p] \in WritePcs}) <= 1
     /\ (\E p \in Slots : pc[p] \in WritePcs) => (\A q \in Slots : pc[q] \notin ReadPcs)
     /\ (\E p \in Slots : pc[p] \in ReadPcs) => Recursive' = Recursive
     /\ \A p \in Slots :
          (pc[p] = "idle" /\ op'[p].name = "isPinned" /\ op'[p].type \in {"direct", "recursive"})
          => (pc'[p] = "done" /\ lock' = lock)]_vars

\* C19: whenever the root key is present, its value is the address of a stored root
\* record with exactly two links, 'direct' then 'recursive', each to a stored set
\* encoding
C19_NoDanglingRoot ==
  pinKey # NoCid
  => /\ pinKey.hash \in dagStore
     /\ pinKey.hash.kind = "root"
     /\ Len(pinKey.hash.links) = 2
     /\ pinKey.hash.links[1].name = "direct"
     /\ pinKey.hash.links[2].name = "recursive"
     /\ \A i \in 1..2 : /\ pinKey.hash.links[i].cid.hash.kind = "set"
                        /\ pinKey.hash.links[i].cid.hash \in dagStore

\* a flush has failed after encoding a set that the root under the root key does
\* not link to
C19_Witness ==
  \E p \in Slots :
    /\ pc[p] = "done" /\ op[p].name \in {"add", "rm"} /\ res[p].err \in FlushPcs
    /\ pinKey # NoCid /\ Persisted("direct") # {}
    /\ linkCache.direct # NoLink /\ linkCache.direct # pinKey.hash.links[1]

\* C20: every started call invokes its callback in the end, and holds no lock when
\* it does; the callback is invoked once: after it the call takes no further step
C20_EveryCallCompletes ==
  /\ \A p \in Procs :
       (pc[p] \notin {"idle", "done"})
         ~> (pc[p] = "done" /\ lock.writer # p /\ p \notin lock.readers)
  /\ [][\A p \in Procs :
          pc[p] = "done" => /\ pc'[p] \in {"done", "idle"}
                            /\ lock'.writer # p /\ p \notin lock'.readers]_vars

\* a call has ended with an error while the call of the other caller waits for the lock
C20_Witness ==
  \E p, q \in Procs :
    /\ pc[p] = "done" /\ res[p].err # None
    /\ pc[q] \in {"waitW", "waitR"}
    /\ lock.writer = Nobody /\ lock.readers = {}

====
